---------------------------- MODULE Spec2Model ----------------------------
(***************************************************************************)
(* A model of populpy: the multi-backend search orchestrator               *)
(* (src/src/services/search_service.py, search_providers.py), the retry    *)
(* wrapper around the trend service and the request flow                   *)
(* (src/src/ui/streamlit_app.py) and the search history store              *)
(* (src/src/models/search.py).                                             *)
(***************************************************************************)
EXTENDS Integers, Sequences, FiniteSets, TLC

\* ------------------------------------------------------------------ bounds
MaxProviders == 2     \* longest list of requested backend names
MaxRetries == 3       \* largest `retries` argument tried
MaxDelay == 2         \* largest `delay` argument tried
MaxRows == 2          \* most records held by the history store
MaxClock == 2         \* largest value of the wall clock (datetime.now)
MaxContexts == 5      \* execution contexts that call add_search concurrently
MaxItems == 2         \* most items in a payload handed to one adapter call
MaxThreads == 2       \* thread identifiers that call SearchManager.get_instance

VARIABLES
  \* SearchService.get_all_results (one call)
  query, providers, config, results, log, pc, idx, pending, trace, raised,
  \* get_trends_data_with_retry (one call)
  retries, delay, attempt, rpc, waited, attempts, rret, warnings, lastError,
  \* SearchManager (history store)
  rows, clock, lastOp,
  \* history of the store's calls: the arguments of the latest call with the
  \* table as it found it, and the ids add_search has given out so far
  lastCall, issued,
  \* main (one script run)
  mpc, mquery, settings, pytrends, search_results, ui, calls,
  \* execution contexts that call add_search on one database at the same time
  cpc, cret, writer,
  \* one call of a provider adapter's search
  aprovider, aresp, aout, apc,
  \* one store call at a time, statement by statement, and its database session
  scall, spc, sopen, sevents, sret,
  \* SearchManager.get_instance: the registry of instances and the threads that call it
  instances, ilock, ipc, iarg, iret, made, given

searchVars == <<query, providers, config, results, log, pc, idx, pending, trace, raised>>
retryVars == <<retries, delay, attempt, rpc, waited, attempts, rret, warnings, lastError>>
storeVars == <<rows, clock, lastOp, lastCall, issued>>
mainVars == <<mpc, mquery, settings, pytrends, search_results, ui, calls>>
concVars == <<cpc, cret, writer>>
adapterVars == <<aprovider, aresp, aout, apc>>
sessionVars == <<scall, spc, sopen, sevents, sret>>
registryVars == <<instances, ilock, ipc, iarg, iret, made, given>>
vars == <<searchVars, retryVars, storeVars, mainVars, concVars, adapterVars, sessionVars, registryVars>>

\* What each component leaves alone.
notSearch == <<retryVars, storeVars, mainVars, concVars, adapterVars, sessionVars, registryVars>>
notRetry == <<searchVars, storeVars, mainVars, concVars, adapterVars, sessionVars, registryVars>>
notStore == <<searchVars, retryVars, mainVars, concVars, adapterVars, sessionVars, registryVars>>
notMain == <<searchVars, retryVars, concVars, adapterVars, sessionVars, registryVars>>
notConc == <<searchVars, retryVars, mainVars, adapterVars, sessionVars, registryVars>>
notAdapter == <<searchVars, retryVars, storeVars, mainVars, concVars, sessionVars, registryVars>>
notSession == <<searchVars, retryVars, mainVars, concVars, adapterVars, registryVars>>
notRegistry == <<searchVars, retryVars, storeVars, mainVars, concVars, adapterVars, sessionVars>>

\* ------------------------------------------------------- python helpers
\* Python's None, as returned by dict.get for an absent key.
None == "<None>"

\* Truthiness of a str-or-None value: `not v` holds for None and ''.
Falsy(v) == v \in {None, ""}

\* dict.get(key)
Get(d, k) == IF k \in DOMAIN d THEN d[k] ELSE None

\* The empty dict.
EmptyDict == [k \in {} |-> <<>>]

\* d[k] = v on a dict.
Put(d, k, v) == [x \in (DOMAIN d) \cup {k} |-> IF x = k THEN v ELSE d[x]]

\* No exception in flight.
NoExc == "<no exception>"

\* ------------------------------------------------------ search backends
\* The three names get_all_results recognizes; any other name is unknown.
KnownProviders == {"Google", "DuckDuckGo", "Bing"}

\* Names a caller may request: the known ones and one unknown name.
ProviderNames == KnownProviders \cup {"Yahoo"}

ConfigKeys == {"api_key", "cx", "bing_api_key"}

\* Configurations tried: every key present with an empty or a real value,
\* and the dict with no key at all.
Configs == [ConfigKeys -> {"", "key"}] \cup {EmptyDict}

Queries == {"", "weather"}

\* Lists of requested names, duplicates allowed.
ProviderLists == UNION {[1..n -> ProviderNames] : n \in 0..MaxProviders}

Titles == <<"t1", "t2", "t3">>
Links == <<"l1", "l2", "l3">>

\* What a backend sends: a sequence of item numbers; 0 stands for an item
\* that lacks its title field.
PayloadShapes == {<<2, 1>>, <<1, 2, 3>>, <<1, 0, 2>>}

\* One raw item as the backend names its fields.
RawItem(provider, n) ==
  CASE provider = "Google" ->
         IF n = 0 THEN [link |-> "l0"] ELSE [title |-> Titles[n], link |-> Links[n]]
    [] provider = "Bing" ->
         IF n = 0 THEN [url |-> "l0"] ELSE [name |-> Titles[n], url |-> Links[n]]
    [] OTHER ->
         IF n = 0 THEN [href |-> "l0"] ELSE [title |-> Titles[n], href |-> Links[n]]

RawItems(provider, shape) == [i \in 1..Len(shape) |-> RawItem(provider, shape[i])]

\* The JSON object of a 200 answer that carries the items.
Body(provider, shape) ==
  CASE provider = "Google" -> [items |-> RawItems(provider, shape)]
    [] provider = "Bing" -> [webPages |-> [value |-> RawItems(provider, shape)]]
    [] OTHER -> [results |-> RawItems(provider, shape)]

\* A JSON object without the key the adapter reads.
OtherBody == [error |-> <<>>]

\* What the network does with one request.
\*   io    : requests.get raises (connection refused, DNS, ...)
\*   http  : an HTTP answer with a status; parses tells whether the body is JSON
\*   hang  : the server never answers
IoError == [kind |-> "io", status |-> 0, parses |-> FALSE, body |-> OtherBody]
Hang == [kind |-> "hang", status |-> 0, parses |-> FALSE, body |-> OtherBody]
NoCall == [kind |-> "nocall", status |-> 0, parses |-> FALSE, body |-> OtherBody]
Http(status, parses, body) == [kind |-> "http", status |-> status, parses |-> parses, body |-> body]

AnsweredResponses(provider) ==
  {IoError, Http(500, TRUE, OtherBody), Http(204, TRUE, OtherBody),
   Http(200, FALSE, OtherBody), Http(200, TRUE, OtherBody)}
  \cup {Http(200, TRUE, Body(provider, s)) : s \in PayloadShapes}

\* requests.get is called without a timeout by the two keyed adapters, so a
\* silent server is a possible outcome for them; DDGS brings its own timeout,
\* which surfaces as an I/O error.
Responses(provider) ==
  IF provider \in {"Google", "Bing"}
    THEN AnsweredResponses(provider) \cup {Hang}
    ELSE AnsweredResponses(provider)

\* The timeout the keyed adapters pass to requests.get: none.
RequestTimeout == None

\* Whether a call that met response r ever returns to the adapter.
CallReturns(r) == r.kind # "hang" \/ RequestTimeout # None

\* SearchResult(title, link).to_dict()
SearchResult(title, link) == [title |-> title, link |-> link]

\* Whether every item carries the two fields the adapter reads.
HasKeys(items, tkey, lkey) ==
  \A i \in 1..Len(items) : {tkey, lkey} \subseteq DOMAIN items[i]

\* A variant of the conversion that yields the entries last item first.
ConvertReversed(items, tkey, lkey) ==
  [i \in 1..Len(items) |->
     SearchResult(items[Len(items) + 1 - i][tkey], items[Len(items) + 1 - i][lkey])]

\* The list comprehension [SearchResult(item[tkey], item[lkey]).to_dict() ...].
Convert(items, tkey, lkey) ==
  [i \in 1..Len(items) |-> SearchResult(items[i][tkey], items[i][lkey])]

\* An adapter's search ends in one of two ways: its try block returns a list,
\* or its except clause logs the error and returns [].
\* `raised` is the exception that leaves search: none in either case.
Returned(list) == [value |-> list, logged |-> FALSE, raised |-> NoExc]
Caught == [value |-> <<>>, logged |-> TRUE, raised |-> NoExc]

\* A variant whose except clause names requests.RequestException only: a
\* body that is no JSON or an item without its fields raises past search.
GoogleSearchNarrowExcept(r) ==
  IF r.kind # "http" THEN Caught
  ELSE IF r.status >= 400 THEN Caught
  ELSE IF r.status # 200 THEN Returned(<<>>)
  ELSE IF ~r.parses THEN [value |-> <<>>, logged |-> FALSE, raised |-> "ValueError"]
  ELSE LET items == IF "items" \in DOMAIN r.body THEN r.body.items ELSE <<>>
       IN IF HasKeys(items, "title", "link")
            THEN Returned(Convert(items, "title", "link"))
            ELSE [value |-> <<>>, logged |-> FALSE, raised |-> "KeyError"]

\* A variant that leaves out the items without their fields.
GoogleSearchSkipsBadItems(r) ==
  IF r.kind # "http" THEN Caught
  ELSE IF r.status >= 400 THEN Caught
  ELSE IF r.status # 200 THEN Returned(<<>>)
  ELSE IF ~r.parses THEN Caught
  ELSE LET items == IF "items" \in DOMAIN r.body THEN r.body.items ELSE <<>>
           good == SelectSeq(items, LAMBDA it : {"title", "link"} \subseteq DOMAIN it)
       IN Returned(Convert(good, "title", "link"))

\* GoogleSearchProvider.search
GoogleSearch(r) ==
  IF r.kind # "http" THEN Caught                    \* requests.get raised
  ELSE IF r.status >= 400 THEN Caught               \* raise_for_status raised
  ELSE IF r.status # 200 THEN Returned(<<>>)
  ELSE IF ~r.parses THEN Caught                     \* response.json() raised
  ELSE LET items == IF "items" \in DOMAIN r.body THEN r.body.items ELSE <<>>
       IN IF HasKeys(items, "title", "link")
            THEN Returned(Convert(items, "title", "link"))
            ELSE Caught                             \* KeyError

\* BingSearchProvider.search
BingSearch(r) ==
  IF r.kind # "http" THEN Caught
  ELSE IF r.status >= 400 THEN Caught
  ELSE IF r.status # 200 THEN Returned(<<>>)
  ELSE IF ~r.parses THEN Caught
  ELSE LET items == IF "webPages" \in DOMAIN r.body THEN r.body.webPages.value ELSE <<>>
       IN IF HasKeys(items, "name", "url")
            THEN Returned(Convert(items, "name", "url"))
            ELSE Caught

\* DuckDuckGoSearchProvider.search: DDGS().text either yields the result
\* dicts or raises.
DuckDuckGoSearch(r) ==
  IF r.kind # "http" \/ r.status # 200 \/ ~r.parses THEN Caught
  ELSE IF "results" \notin DOMAIN r.body THEN Caught
  ELSE IF HasKeys(r.body.results, "title", "href")
         THEN Returned(Convert(r.body.results, "title", "href"))
         ELSE Caught

\* ------------------------------------------------ one adapter search call
\* Payloads handed to one adapter call: every sequence of up to MaxItems
\* item numbers, 0 for an item that lacks its title field.
AdapterShapes == UNION {[1..n -> 0..Len(Titles)] : n \in 0..MaxItems}

\* Responses one adapter call may meet: an I/O error, or an HTTP answer of a
\* success or an error status whose body is no JSON, a JSON object without
\* the items, or a JSON object with a payload.
AdapterResponses(provider) ==
  {IoError}
  \cup {Http(st, FALSE, OtherBody) : st \in {200, 204, 404, 500}}
  \cup {Http(st, TRUE, OtherBody) : st \in {200, 204, 404, 500}}
  \cup {Http(st, TRUE, Body(provider, sh)) : st \in {200, 204, 404, 500}, sh \in AdapterShapes}

\* provider.search(query) for the adapter of a backend.
AdapterSearchOf(provider, r) ==
  CASE provider = "Google" -> GoogleSearch(r)
    [] provider = "Bing" -> BingSearch(r)
    [] OTHER -> DuckDuckGoSearch(r)

AdapterInit ==
  /\ aprovider \in KnownProviders
  /\ aresp \in AdapterResponses(aprovider)
  /\ aout = Returned(<<>>)
  /\ apc = "call"

\* No adapter call on its own.
AdapterIdle ==
  /\ aprovider = "Google"
  /\ aresp = NoCall
  /\ aout = Returned(<<>>)
  /\ apc = "idle"

\* The call meets its response and search ends.
AdapterSearch ==
  /\ apc = "call"
  /\ aout' = AdapterSearchOf(aprovider, aresp)
  /\ apc' = "returned"
  /\ UNCHANGED <<aprovider, aresp>>
  /\ UNCHANGED notAdapter

AdapterNext == AdapterSearch

\* ------------------------------------------- SearchService.get_all_results
LogEntry(level, who, what) == [level |-> level, who |-> who, what |-> what]

\* The logger.error of an adapter's except clause.
AdapterLog(provider, out) ==
  IF out.logged THEN <<LogEntry("error", provider, "adapter")>> ELSE <<>>

\* Whether the iteration for `provider` gets as far as an adapter call.
NeedsCall(provider, cfg) ==
  CASE provider = "Google" -> ~(Falsy(Get(cfg, "api_key")) \/ Falsy(Get(cfg, "cx")))
    [] provider = "DuckDuckGo" -> TRUE
    [] provider = "Bing" -> ~Falsy(Get(cfg, "bing_api_key"))
    [] OTHER -> FALSE

\* A variant of the try block that does not validate the Bing key: the
\* adapter is called with whatever key there is.
TryBlockNoBingCheck(res, provider, cfg, r) ==
  CASE provider = "Google" ->
         IF Falsy(Get(cfg, "api_key")) \/ Falsy(Get(cfg, "cx"))
           THEN [exc |-> "ConfigurationError", results |-> res,
                 log |-> <<LogEntry("warning", "Google", "missing credentials")>>]
           ELSE LET out == GoogleSearch(r)
                 IN [exc |-> NoExc, results |-> Put(res, "Google", out.value),
                     log |-> AdapterLog("Google", out)]
    [] provider = "DuckDuckGo" ->
         LET out == DuckDuckGoSearch(r)
          IN [exc |-> NoExc, results |-> Put(res, "DuckDuckGo", out.value),
              log |-> AdapterLog("DuckDuckGo", out)]
    [] provider = "Bing" ->
         LET out == BingSearch(r)
          IN [exc |-> NoExc, results |-> Put(res, "Bing", out.value),
              log |-> AdapterLog("Bing", out)]
    [] OTHER ->
         [exc |-> NoExc, results |-> Put(res, provider, <<>>),
          log |-> <<LogEntry("warning", provider, "unknown provider")>>]

\* A variant of the try block that only warns about an unknown name and
\* stores nothing under it.
TryBlockUnknownSkipped(res, provider, cfg, r) ==
  CASE provider = "Google" ->
         IF Falsy(Get(cfg, "api_key")) \/ Falsy(Get(cfg, "cx"))
           THEN [exc |-> "ConfigurationError", results |-> res,
                 log |-> <<LogEntry("warning", "Google", "missing credentials")>>]
           ELSE LET out == GoogleSearch(r)
                 IN [exc |-> NoExc, results |-> Put(res, "Google", out.value),
                     log |-> AdapterLog("Google", out)]
    [] provider = "DuckDuckGo" ->
         LET out == DuckDuckGoSearch(r)
          IN [exc |-> NoExc, results |-> Put(res, "DuckDuckGo", out.value),
              log |-> AdapterLog("DuckDuckGo", out)]
    [] provider = "Bing" ->
         IF Falsy(Get(cfg, "bing_api_key"))
           THEN [exc |-> "ConfigurationError", results |-> res,
                 log |-> <<LogEntry("warning", "Bing", "missing credentials")>>]
           ELSE LET out == BingSearch(r)
                 IN [exc |-> NoExc, results |-> Put(res, "Bing", out.value),
                     log |-> AdapterLog("Bing", out)]
    [] OTHER ->
         [exc |-> NoExc, results |-> res,
          log |-> <<LogEntry("warning", provider, "unknown provider")>>]

\* The try block of one iteration (lines 54-81): the exception it ends with
\* (NoExc when it runs to its end), the results dict and what it logged.
TryBlock(res, provider, cfg, r) ==
  CASE provider = "Google" ->
         IF Falsy(Get(cfg, "api_key")) \/ Falsy(Get(cfg, "cx"))
           THEN [exc |-> "ConfigurationError", results |-> res,
                 log |-> <<LogEntry("warning", "Google", "missing credentials")>>]
           ELSE LET out == GoogleSearch(r)
                 IN [exc |-> NoExc, results |-> Put(res, "Google", out.value),
                     log |-> AdapterLog("Google", out)]
    [] provider = "DuckDuckGo" ->
         LET out == DuckDuckGoSearch(r)
          IN [exc |-> NoExc, results |-> Put(res, "DuckDuckGo", out.value),
              log |-> AdapterLog("DuckDuckGo", out)]
    [] provider = "Bing" ->
         IF Falsy(Get(cfg, "bing_api_key"))
           THEN [exc |-> "ConfigurationError", results |-> res,
                 log |-> <<LogEntry("warning", "Bing", "missing credentials")>>]
           ELSE LET out == BingSearch(r)
                 IN [exc |-> NoExc, results |-> Put(res, "Bing", out.value),
                     log |-> AdapterLog("Bing", out)]
    [] OTHER ->
         [exc |-> NoExc, results |-> Put(res, provider, <<>>),
          log |-> <<LogEntry("warning", provider, "unknown provider")>>]

\* The except clauses (lines 83-98), in order; the last one catches every
\* Exception.
ExceptClause(exc) ==
  CASE exc = "ConfigurationError" -> "configuration"
    [] exc = "RequestException" -> "network"
    [] exc = "SearchAPIError" -> "api"
    [] OTHER -> "unexpected"

\* Variants of the loop body with a plausible slip each, used to show that
\* the properties below depend on it.
\* - the except clause forgets to store the empty list
HandleProviderNoEntry(res, provider, cfg, r) ==
  LET t == TryBlock(res, provider, cfg, r)
  IN IF t.exc = NoExc
       THEN [results |-> t.results, log |-> t.log, raised |-> NoExc]
       ELSE [results |-> t.results,
             log |-> t.log \o <<LogEntry("error", provider, ExceptClause(t.exc))>>,
             raised |-> NoExc]

\* - the except clause starts the results dict afresh
HandleProviderReset(res, provider, cfg, r) ==
  LET t == TryBlock(res, provider, cfg, r)
  IN IF t.exc = NoExc
       THEN [results |-> t.results, log |-> t.log, raised |-> NoExc]
       ELSE [results |-> Put(EmptyDict, provider, <<>>),
             log |-> t.log \o <<LogEntry("error", provider, ExceptClause(t.exc))>>,
             raised |-> NoExc]

\* - no except clause catches ConfigurationError
HandleProviderPropagates(res, provider, cfg, r) ==
  LET t == TryBlock(res, provider, cfg, r)
  IN IF t.exc = NoExc
       THEN [results |-> t.results, log |-> t.log, raised |-> NoExc]
       ELSE [results |-> t.results, log |-> t.log, raised |-> t.exc]

\* One iteration of the loop (lines 52-98): try block, then the except
\* clause that catches what it raised.
HandleProvider(res, provider, cfg, r) ==
  LET t == TryBlock(res, provider, cfg, r)
  IN IF t.exc = NoExc
       THEN [results |-> t.results, log |-> t.log, raised |-> NoExc]
       ELSE [results |-> Put(t.results, provider, <<>>),
             log |-> t.log \o <<LogEntry("error", provider, ExceptClause(t.exc))>>,
             raised |-> NoExc]

\* The whole loop over `ps`, the i-th iteration meeting response rs[i].
RECURSIVE RunLoop(_, _, _, _)
RunLoop(res, ps, cfg, rs) ==
  IF ps = <<>> THEN res
  ELSE RunLoop(HandleProvider(res, Head(ps), cfg, Head(rs)).results, Tail(ps), cfg, Tail(rs))

\* get_all_results(q, ps, cfg) as a function of its arguments and of the
\* responses the backends give.
GetAllResults(q, ps, cfg, rs) ==
  IF q = "" THEN [raised |-> "ValueError", value |-> EmptyDict]
  ELSE [raised |-> NoExc, value |-> RunLoop(EmptyDict, ps, cfg, rs)]

\* The names a list requests.
Requested(ps) == {ps[i] : i \in 1..Len(ps)}

\* Arguments of the call under way; nothing done yet.
SearchInit ==
  /\ query \in Queries
  /\ providers \in ProviderLists
  /\ config \in Configs
  /\ results = EmptyDict
  /\ log = <<>>
  /\ pc = "enter"
  /\ idx = 1
  /\ pending = NoCall
  /\ trace = <<>>
  /\ raised = NoExc

\* No call of get_all_results under way.
SearchIdle ==
  /\ query = ""
  /\ providers = <<>>
  /\ config = EmptyDict
  /\ results = EmptyDict
  /\ log = <<>>
  /\ pc = "idle"
  /\ idx = 1
  /\ pending = NoCall
  /\ trace = <<>>
  /\ raised = NoExc

\* Lines 47-50: the empty query is refused, otherwise results = {}.
Enter ==
  /\ pc = "enter"
  /\ IF query = ""
       THEN pc' = "raised" /\ raised' = "ValueError"
       ELSE pc' = "loop" /\ raised' = raised
  /\ results' = EmptyDict
  /\ UNCHANGED <<query, providers, config, log, idx, pending, trace>>
  /\ UNCHANGED notSearch

\* The state after the iteration at idx has met response r.
AfterIteration(r) ==
  LET h == HandleProvider(results, providers[idx], config, r)
  IN /\ results' = h.results
     /\ log' = log \o h.log
     /\ raised' = h.raised
     /\ pc' = IF h.raised = NoExc THEN "loop" ELSE "raised"
     /\ trace' = Append(trace, r)
     /\ idx' = idx + 1
     /\ pending' = NoCall

\* An iteration that contacts no backend: an unknown name, or a keyed
\* backend whose credential is missing.
ProviderNoCall ==
  /\ pc = "loop"
  /\ idx <= Len(providers)
  /\ ~NeedsCall(providers[idx], config)
  /\ AfterIteration(NoCall)
  /\ UNCHANGED <<query, providers, config>>
  /\ UNCHANGED notSearch

\* The adapter issues its request; the network decides what will come back.
ProviderSend ==
  /\ pc = "loop"
  /\ idx <= Len(providers)
  /\ NeedsCall(providers[idx], config)
  /\ \E r \in Responses(providers[idx]) : pending' = r
  /\ pc' = "waiting"
  /\ UNCHANGED <<query, providers, config, results, log, idx, trace, raised>>
  /\ UNCHANGED notSearch

\* The request ends (an answer, an error, or the timeout when there is one)
\* and the adapter's result is stored.
ProviderReceive ==
  /\ pc = "waiting"
  /\ CallReturns(pending)
  /\ AfterIteration(IF pending.kind = "hang" THEN IoError ELSE pending)
  /\ UNCHANGED <<query, providers, config>>
  /\ UNCHANGED notSearch

\* Line 100.
Return ==
  /\ pc = "loop"
  /\ idx > Len(providers)
  /\ pc' = "returned"
  /\ UNCHANGED <<query, providers, config, results, log, idx, pending, trace, raised>>
  /\ UNCHANGED notSearch

SearchNext == Enter \/ ProviderNoCall \/ ProviderSend \/ ProviderReceive \/ Return

\* ---------------------------------------------- get_trends_data_with_retry
\* What the trend service does with one attempt (TrendReq + build_payload).
TrendErrors == {"ResponseError", "ConnectionError"}
TrendOutcomes == {"ok"} \cup TrendErrors

\* The value returned: None, or the handle built by attempt `builtBy`
\* (1-indexed); "pending" while the call runs, "raised" if an exception left it.
Ret(kind, builtBy) == [kind |-> kind, builtBy |-> builtBy]

\* A variant of the loop bound that is off by one.
LoopContinuesOffByOne(a, n) == a <= n

\* for attempt in range(retries)
LoopContinues(a, n) == a < n

\* `except Exception` catches whatever the attempt raised.
ExceptCatches(e) == TRUE

RetryInit ==
  /\ retries \in 0..MaxRetries
  /\ delay \in 1..MaxDelay
  /\ attempt = 0
  /\ rpc = "loop"
  /\ waited = 0
  /\ attempts = 0
  /\ rret = Ret("pending", 0)
  /\ warnings = <<>>
  /\ lastError = NoExc

RetryIdle ==
  /\ retries = 0
  /\ delay = 0
  /\ attempt = 0
  /\ rpc = "idle"
  /\ waited = 0
  /\ attempts = 0
  /\ rret = Ret("pending", 0)
  /\ warnings = <<>>
  /\ lastError = NoExc

\* Line 235, and line 250 when the range is exhausted.
LoopHead ==
  /\ rpc = "loop"
  /\ IF LoopContinues(attempt, retries)
       THEN rpc' = "sleep" /\ rret' = rret
       ELSE rpc' = "done" /\ rret' = Ret("None", 0)
  /\ UNCHANGED <<retries, delay, attempt, waited, attempts, warnings, lastError>>
  /\ UNCHANGED notRetry

\* Line 237: the sleep at the top of the try block.
TrySleep ==
  /\ rpc = "sleep"
  /\ waited' = waited + delay
  /\ rpc' = "build"
  /\ UNCHANGED <<retries, delay, attempt, attempts, rret, warnings, lastError>>
  /\ UNCHANGED notRetry

\* A variant in which a built handle is kept but the loop goes on.
ReturnHandleKeepsLooping(a) == [rpc |-> "except", ret |-> Ret("handle", a + 1)]

\* Line 245: `return pytrends` leaves the loop with the handle that the
\* attempt under way (0-indexed a) built.
ReturnHandle(a) == [rpc |-> "done", ret |-> Ret("handle", a + 1)]

\* Lines 239-245: one attempt against the trend service.
Build ==
  /\ rpc = "build"
  /\ attempts' = attempts + 1
  /\ \E o \in TrendOutcomes :
       IF o = "ok"
         THEN rpc' = ReturnHandle(attempt).rpc /\ rret' = ReturnHandle(attempt).ret
              /\ lastError' = lastError
         ELSE IF ExceptCatches(o)
           THEN rpc' = "except" /\ rret' = rret /\ lastError' = o
           ELSE rpc' = "done" /\ rret' = Ret("raised", 0) /\ lastError' = o
  /\ UNCHANGED <<retries, delay, attempt, waited, warnings>>
  /\ UNCHANGED notRetry

\* Lines 246-249: the warning on the last attempt, then the sleep.
Except ==
  /\ rpc = "except"
  /\ warnings' = IF attempt = retries - 1
                   THEN Append(warnings, [attempt |-> attempt + 1, error |-> lastError])
                   ELSE warnings
  /\ waited' = waited + delay
  /\ attempt' = attempt + 1
  /\ rpc' = "loop"
  /\ UNCHANGED <<retries, delay, attempts, rret, lastError>>
  /\ UNCHANGED notRetry

RetryNext == LoopHead \/ TrySleep \/ Build \/ Except

\* The whole call as a function of what the service does at each attempt:
\* svc[k] is the outcome of attempt k. a is the 0-indexed attempt.
RECURSIVE RetryFrom(_, _, _, _, _)
RetryFrom(svc, n, d, a, acc) ==
  IF ~LoopContinues(a, n) THEN [acc EXCEPT !.ret = Ret("None", 0)]
  ELSE IF svc[a + 1] = "ok"
    THEN [acc EXCEPT !.ret = Ret("handle", a + 1), !.waited = @ + d, !.attempts = @ + 1]
    ELSE RetryFrom(svc, n, d, a + 1,
                   [acc EXCEPT !.waited = @ + d + d, !.attempts = @ + 1,
                               !.warnings = IF a = n - 1
                                              THEN Append(@, [attempt |-> a + 1, error |-> svc[a + 1]])
                                              ELSE @])

get_trends_data_with_retry(svc, n, d) ==
  RetryFrom(svc, n, d, 0, [ret |-> Ret("pending", 0), waited |-> 0, attempts |-> 0, warnings |-> <<>>])

\* -------------------------------------------- SearchManager (history store)
\* The credential keys of a settings snapshot.
Denylist == {"google_search_api_key", "custom_search_engine_id", "bing_api_key"}

\* A Python value handed to the store: its kind and its content.
\*   none           : None
\*   dict           : a dict json.dumps accepts
\*   unserializable : a dict holding a value json.dumps refuses (TypeError)
\*   circular       : a dict that refers to itself (json.dumps: ValueError)
\*   str            : the str() of the content
\*   tuple          : a dict json.dumps accepts although it holds a tuple
PyValue(type, data) == [type |-> type, data |-> data]
PyNone == PyValue("none", EmptyDict)

\* What a JSON column gives back for the value written to it: the value
\* decoded from its JSON text, in which a tuple has become a list.
JsonColumn(v) ==
  IF v.type = "tuple" THEN PyValue("dict", v.data) ELSE v

\* A variant whose fallback gives up the value.
EnsureJsonSerializableDropsValue(v) ==
  CASE v.type = "none" -> [raised |-> NoExc, value |-> PyValue("dict", EmptyDict)]
    [] v.type = "unserializable" -> [raised |-> NoExc, value |-> PyValue("dict", EmptyDict)]
    [] v.type = "circular" -> [raised |-> "ValueError", value |-> v]
    [] OTHER -> [raised |-> NoExc, value |-> v]

\* SearchManager._ensure_json_serializable
EnsureJsonSerializable(v) ==
  CASE v.type = "none" -> [raised |-> NoExc, value |-> PyValue("dict", EmptyDict)]
    [] v.type = "unserializable" -> [raised |-> NoExc, value |-> PyValue("str", v.data)]
    [] v.type = "circular" -> [raised |-> "ValueError", value |-> v]
    [] OTHER -> [raised |-> NoExc, value |-> v]

\* The id and the timestamp of a Search that was never inserted (None).
NoId == 0
NoTime == 0

\* Search(...): the ORM object; id and timestamp are filled on insert.
Search(id, q, country, timestamp, res, set) ==
  [id |-> id, query |-> q, country |-> country, timestamp |-> timestamp,
   results |-> res, settings |-> set]

NoRow == Search(NoId, "", None, NoTime, PyNone, PyNone)

MaxOf(S) == CHOOSE m \in S : \A x \in S : x <= m

\* A variant that numbers a new row by the count of rows.
NextIdByCount(rs) == Cardinality(rs) + 1

\* The rowid SQLite gives an INTEGER PRIMARY KEY column on insert: one more
\* than the largest one in the table.
NextId(rs) == IF rs = {} THEN 1 ELSE MaxOf({r.id : r \in rs}) + 1

\* A variant that makes room for the new row by dropping the oldest one.
AddSearchEvictsOldest(rs, now, q, country, res, set, commitOk) ==
  LET c == IF country = None /\ set.type # "none" /\ set.data # EmptyDict
                /\ "country" \in DOMAIN set.data
             THEN set.data["country"] ELSE country
      sres == EnsureJsonSerializable(res)
      sset == EnsureJsonSerializable(set)
      search == Search(NextId(rs), q, c, now, sres.value, sset.value)
      stored == Search(search.id, q, c, now, JsonColumn(sres.value), JsonColumn(sset.value))
      kept == {r \in rs : \E r2 \in rs : r2.id < r.id}
  IN IF sres.raised # NoExc THEN [rows |-> rs, ret |-> NoRow, raised |-> sres.raised]
     ELSE IF sset.raised # NoExc THEN [rows |-> rs, ret |-> NoRow, raised |-> sset.raised]
     ELSE IF commitOk THEN [rows |-> kept \cup {stored}, ret |-> search, raised |-> NoExc]
     ELSE [rows |-> rs, ret |-> Search(NoId, q, c, NoTime, PyNone, PyNone), raised |-> NoExc]

\* A variant whose except clause hands back the object it tried to insert,
\* with the id the flush gave it.
AddSearchReturnsFailedObject(rs, now, q, country, res, set, commitOk) ==
  LET c == IF country = None /\ set.type # "none" /\ set.data # EmptyDict
                /\ "country" \in DOMAIN set.data
             THEN set.data["country"] ELSE country
      sres == EnsureJsonSerializable(res)
      sset == EnsureJsonSerializable(set)
      search == Search(NextId(rs), q, c, now, sres.value, sset.value)
      stored == Search(search.id, q, c, now, JsonColumn(sres.value), JsonColumn(sset.value))
  IN IF sres.raised # NoExc THEN [rows |-> rs, ret |-> NoRow, raised |-> sres.raised]
     ELSE IF sset.raised # NoExc THEN [rows |-> rs, ret |-> NoRow, raised |-> sset.raised]
     ELSE IF commitOk THEN [rows |-> rs \cup {stored}, ret |-> search, raised |-> NoExc]
     ELSE [rows |-> rs, ret |-> search, raised |-> NoExc]

\* SearchManager.add_search: the table, the returned Search and the
\* exception, if one leaves the call. commitOk: whether session.commit() works.
\* The table holds what the JSON columns keep of results and settings; the
\* returned object still holds the values it was built with.
AddSearch(rs, now, q, country, res, set, commitOk) ==
  LET c == IF country = None /\ set.type # "none" /\ set.data # EmptyDict
                /\ "country" \in DOMAIN set.data
             THEN set.data["country"] ELSE country
      sres == EnsureJsonSerializable(res)
      sset == EnsureJsonSerializable(set)
      search == Search(NextId(rs), q, c, now, sres.value, sset.value)
      stored == Search(search.id, q, c, now, JsonColumn(sres.value), JsonColumn(sset.value))
  IN IF sres.raised # NoExc THEN [rows |-> rs, ret |-> NoRow, raised |-> sres.raised]
     ELSE IF sset.raised # NoExc THEN [rows |-> rs, ret |-> NoRow, raised |-> sset.raised]
     ELSE IF commitOk THEN [rows |-> rs \cup {stored}, ret |-> search, raised |-> NoExc]
     ELSE [rows |-> rs, ret |-> Search(NoId, q, c, NoTime, PyNone, PyNone), raised |-> NoExc]

\* A search id as callers pass it: a number, or text int() refuses.
SearchId(n) == [numeric |-> TRUE, n |-> n]
BadSearchId == [numeric |-> FALSE, n |-> 0]

\* A variant that takes the first row of the table instead of the row with
\* the given id.
GetSearchByIdFirstRow(rs, sid, dbOk) ==
  IF ~sid.numeric THEN NoRow
  ELSE IF ~dbOk THEN NoRow
  ELSE IF rs # {} THEN CHOOSE r \in rs : \A r2 \in rs : r.id <= r2.id
  ELSE NoRow

\* SearchManager.get_search_by_id: a copy of the row, or NoRow for None.
GetSearchById(rs, sid, dbOk) ==
  IF ~sid.numeric THEN NoRow
  ELSE IF ~dbOk THEN NoRow
  ELSE IF \E r \in rs : r.id = sid.n THEN CHOOSE r \in rs : r.id = sid.n
  ELSE NoRow

\* A variant that reports success whether or not the row was there.
DeleteSearchOpAlwaysTrue(rs, sid, dbOk) ==
  IF ~sid.numeric \/ ~dbOk THEN [rows |-> rs, ret |-> FALSE]
  ELSE [rows |-> {r \in rs : r.id # sid.n}, ret |-> TRUE]

\* SearchManager.delete_search: the table and the boolean returned.
DeleteSearchOp(rs, sid, dbOk) ==
  IF ~sid.numeric \/ ~dbOk THEN [rows |-> rs, ret |-> FALSE]
  ELSE IF \E r \in rs : r.id = sid.n
    THEN [rows |-> {r \in rs : r.id # sid.n}, ret |-> TRUE]
    ELSE [rows |-> rs, ret |-> FALSE]

\* A variant that orders by timestamp ascending.
IsRecentAscending(list, rs, limit) ==
  /\ Len(list) = (IF Cardinality(rs) < limit THEN Cardinality(rs) ELSE limit)
  /\ \A i \in 1..Len(list) : list[i] \in rs
  /\ \A i, j \in 1..Len(list) : i < j => (list[i] # list[j] /\ list[i].timestamp <= list[j].timestamp)
  /\ \A r \in rs : (\A i \in 1..Len(list) : list[i] # r) =>
        \A i \in 1..Len(list) : list[i].timestamp <= r.timestamp

\* ORDER BY timestamp DESC LIMIT limit: any list of distinct rows, latest
\* first, that leaves out no row later than one it holds.
IsRecent(list, rs, limit) ==
  /\ Len(list) = (IF Cardinality(rs) < limit THEN Cardinality(rs) ELSE limit)
  /\ \A i \in 1..Len(list) : list[i] \in rs
  /\ \A i, j \in 1..Len(list) : i < j => (list[i] # list[j] /\ list[i].timestamp >= list[j].timestamp)
  /\ \A r \in rs : (\A i \in 1..Len(list) : list[i] # r) =>
        \A i \in 1..Len(list) : list[i].timestamp >= r.timestamp

\* SearchManager.get_recent_searches: the lists the query may give (rows of
\* one timestamp come in any order); the empty list when the database fails.
GetRecentSearches(rs, limit, dbOk) ==
  IF ~dbOk THEN {<<>>}
  ELSE LET n == IF Cardinality(rs) < limit THEN Cardinality(rs) ELSE limit
       IN {list \in [1..n -> rs] : IsRecent(list, rs, limit)}

\* What the callers of the store pass to add_search: country, results and
\* settings (with and without credential keys, serializable or not).
PlainSettings == PyValue("dict", [country |-> "US"])
SecretSettings ==
  PyValue("dict", [country |-> "US", google_search_api_key |-> "key",
                   custom_search_engine_id |-> "cx", bing_api_key |-> "key"])
SomeResults == [Google |-> <<SearchResult("t1", "l1")>>]
StoreQueries == {"weather"}
AddArguments ==
  {<<None, PyNone, PyNone>>,
   <<"ES", PyValue("dict", SomeResults), SecretSettings>>,
   <<None, PyValue("unserializable", SomeResults), PyValue("unserializable", [country |-> "US"])>>,
   <<"ES", PyValue("circular", SomeResults), PlainSettings>>,
   <<"ES", PyValue("tuple", SomeResults), SecretSettings>>}
SearchIds == {SearchId(n) : n \in 1..(MaxRows + 1)} \cup {BadSearchId}

\* The limits callers pass to get_recent_searches: none, some, more than
\* the table can hold.
Limits == 0..(MaxRows + 1)

Op(op, raisedExc, row, ok, list) ==
  [op |-> op, raised |-> raisedExc, row |-> row, ok |-> ok, list |-> list]

\* The latest call: its arguments (search id, limit, results, settings),
\* whether the database worked, the table and the ids given out before it.
Call(sid, limit, res, set, dbOk, before, ids) ==
  [sid |-> sid, limit |-> limit, results |-> res, settings |-> set, dbOk |-> dbOk,
   before |-> before, issued |-> ids]

\* The ids given out so far, with the one add_search returns in `ret`.
IssuedWith(ret) == IF ret.id = NoId THEN issued ELSE issued \cup {ret.id}

StoreInit ==
  /\ rows = {}
  /\ clock = 1
  /\ lastOp = Op("none", NoExc, NoRow, FALSE, <<>>)
  /\ lastCall = Call(BadSearchId, 0, PyNone, PyNone, TRUE, {}, {})
  /\ issued = {}

add_search ==
  /\ Cardinality(rows) < MaxRows
  /\ \E q \in StoreQueries, args \in AddArguments, commitOk \in BOOLEAN :
       LET a == AddSearch(rows, clock, q, args[1], args[2], args[3], commitOk)
       IN /\ rows' = a.rows
          /\ lastOp' = Op("add_search", a.raised, a.ret, FALSE, <<>>)
          /\ lastCall' = Call(BadSearchId, 0, args[2], args[3], commitOk, rows, issued)
          /\ issued' = IssuedWith(a.ret)
  /\ UNCHANGED clock
  /\ UNCHANGED notStore

get_search_by_id ==
  /\ \E sid \in SearchIds, dbOk \in BOOLEAN :
       /\ lastOp' = Op("get_search_by_id", NoExc, GetSearchById(rows, sid, dbOk), FALSE, <<>>)
       /\ lastCall' = Call(sid, 0, PyNone, PyNone, dbOk, rows, issued)
  /\ UNCHANGED <<rows, clock, issued>>
  /\ UNCHANGED notStore

delete_search ==
  /\ \E sid \in SearchIds, dbOk \in BOOLEAN :
       LET d == DeleteSearchOp(rows, sid, dbOk)
       IN /\ rows' = d.rows
          /\ lastOp' = Op("delete_search", NoExc, NoRow, d.ret, <<>>)
          /\ lastCall' = Call(sid, 0, PyNone, PyNone, dbOk, rows, issued)
  /\ UNCHANGED <<clock, issued>>
  /\ UNCHANGED notStore

get_recent_searches ==
  /\ \E limit \in Limits, dbOk \in BOOLEAN :
       \E list \in GetRecentSearches(rows, limit, dbOk) :
         /\ lastOp' = Op("get_recent_searches", NoExc, NoRow, FALSE, list)
         /\ lastCall' = Call(BadSearchId, limit, PyNone, PyNone, dbOk, rows, issued)
  /\ UNCHANGED <<rows, clock, issued>>
  /\ UNCHANGED notStore

\* datetime.now moves on.
Tick ==
  /\ clock < MaxClock
  /\ clock' = clock + 1
  /\ UNCHANGED <<rows, lastOp, lastCall, issued>>
  /\ UNCHANGED notStore

StoreNext == add_search \/ get_search_by_id \/ delete_search \/ get_recent_searches \/ Tick

\* A partial results mapping a caller would overlay on a stored record.
Partials == {PyValue("dict", [Bing |-> <<SearchResult("t2", "l2")>>]),
             PyValue("dict", [Google |-> <<>>])}

\* manager.update_results(sid, partial): the class SearchManager (lines
\* 39-262) defines __new__, get_instance, __init__, add_search,
\* _ensure_json_serializable, get_recent_searches, _clone_search,
\* get_search_by_id, delete_search and __del__; the attribute lookup of any
\* other name raises AttributeError before anything runs.
update_results ==
  /\ \E sid \in SearchIds, partial \in Partials :
       /\ lastOp' = Op("update_results", "AttributeError", NoRow, FALSE, <<>>)
       /\ lastCall' = Call(sid, 0, partial, PyNone, TRUE, rows, issued)
  /\ UNCHANGED <<rows, clock, issued>>
  /\ UNCHANGED notStore

UpdateNext == add_search \/ Tick \/ update_results

\* ------------------------------------------- SearchManager.get_instance
\* threading.get_ident() of the calling threads.
Threads == 1..MaxThreads
NoThread == 0

\* The db_path arguments tried: the default None, and a path.
DbPaths == {None, "a.db"}

\* A SearchManager object: the n-th one built, by the call of a thread with
\* a db_path argument; __init__ resolves None to 'searches.db' (lines 72-73).
Instance(n, thread, arg) ==
  [n |-> n, thread |-> thread, arg |-> arg,
   db_path |-> IF arg = None THEN "searches.db" ELSE arg]
NoInstance == Instance(0, NoThread, None)

\* A variant that builds a new instance when the db_path differs from the
\* one the registered instance was built with.
MustCreateOnNewPath(reg, thread, arg) ==
  IF thread \notin DOMAIN reg THEN TRUE ELSE reg[thread].arg # arg

\* Line 60: if thread_id not in cls._instances.
MustCreate(reg, thread, arg) == thread \notin DOMAIN reg

RegistryInit ==
  /\ instances = EmptyDict
  /\ ilock = NoThread
  /\ ipc = [t \in Threads |-> "idle"]
  /\ iarg = [t \in Threads |-> None]
  /\ iret = [t \in Threads |-> NoInstance]
  /\ made = <<>>
  /\ given = [t \in Threads |-> {}]

\* Line 58: a thread calls get_instance(db_path) and reads its identifier.
GetInstanceCall(t) ==
  /\ ipc[t] \in {"idle", "returned", "raised"}
  /\ \E p \in DbPaths : iarg' = [iarg EXCEPT ![t] = p]
  /\ ipc' = [ipc EXCEPT ![t] = "enter"]
  /\ UNCHANGED <<instances, ilock, iret, made, given>>
  /\ UNCHANGED notRegistry

\* Line 59: with cls._lock (an RLock: free, or already held by the thread).
GetInstanceAcquire(t) ==
  /\ ipc[t] = "enter"
  /\ ilock \in {NoThread, t}
  /\ ilock' = t
  /\ ipc' = [ipc EXCEPT ![t] = "locked"]
  /\ UNCHANGED <<instances, iarg, iret, made, given>>
  /\ UNCHANGED notRegistry

\* Lines 60-61: no entry for the thread, so cls(db_path) is built and
\* registered; when __init__ raises (the database cannot be opened) the
\* exception leaves the with block, which releases the lock.
GetInstanceCreate(t) ==
  /\ ipc[t] = "locked"
  /\ MustCreate(instances, t, iarg[t])
  /\ Len(made) <= MaxThreads
  /\ \E initOk \in BOOLEAN :
       IF initOk
         THEN LET new == Instance(Len(made) + 1, t, iarg[t])
              IN /\ instances' = Put(instances, t, new)
                 /\ made' = Append(made, new)
                 /\ ipc' = [ipc EXCEPT ![t] = "registered"]
                 /\ ilock' = ilock
         ELSE /\ ipc' = [ipc EXCEPT ![t] = "raised"]
              /\ ilock' = NoThread
              /\ UNCHANGED <<instances, made>>
  /\ UNCHANGED <<iarg, iret, given>>
  /\ UNCHANGED notRegistry

\* Line 62: return cls._instances[thread_id], and the lock is released.
GetInstanceReturn(t) ==
  /\ \/ ipc[t] = "registered"
     \/ ipc[t] = "locked" /\ ~MustCreate(instances, t, iarg[t])
  /\ iret' = [iret EXCEPT ![t] = instances[t]]
  /\ given' = [given EXCEPT ![t] = @ \cup {instances[t]}]
  /\ ipc' = [ipc EXCEPT ![t] = "returned"]
  /\ ilock' = NoThread
  /\ UNCHANGED <<instances, iarg, made>>
  /\ UNCHANGED notRegistry

RegistryNext ==
  \E t \in Threads :
    GetInstanceCall(t) \/ GetInstanceAcquire(t) \/ GetInstanceCreate(t) \/ GetInstanceReturn(t)

\* ------------------------------------- a store call, statement by statement
\* The add_search calls followed statement by statement: results that are a
\* plain dict, that json.dumps refuses, and that refer to themselves.
SessionAddArguments == {a \in AddArguments : a[2].type \in {"dict", "unserializable", "circular"}}
NoArguments == <<None, PyNone, PyNone>>

\* A call of a store method: its name, its arguments and the table it finds.
StoreCall(op, sid, limit, args, before) ==
  [op |-> op, q |-> "weather", sid |-> sid, limit |-> limit, args |-> args, before |-> before]

StoreCalls(rs) ==
  {StoreCall("add_search", BadSearchId, 0, a, rs) : a \in SessionAddArguments}
  \cup {StoreCall("get_search_by_id", sid, 0, NoArguments, rs) : sid \in SearchIds}
  \cup {StoreCall("delete_search", sid, 0, NoArguments, rs) : sid \in SearchIds}
  \cup {StoreCall("get_recent_searches", BadSearchId, MaxRows, NoArguments, rs)}

\* Whether the statements of add_search before its session (lines 105-119)
\* raise: _ensure_json_serializable lets the ValueError of a circular value out.
RaisesBeforeSession(c) ==
  /\ c.op = "add_search"
  /\ \/ EnsureJsonSerializable(c.args[2]).raised # NoExc
     \/ EnsureJsonSerializable(c.args[3]).raised # NoExc

\* The try block of each method: the exception it ends with (NoExc when it
\* reaches its return), the table, what the session did and the value the
\* return statement holds. dbOk: whether the database works during the call.
TryOutcomes(c, rs, now, dbOk) ==
  CASE c.op = "add_search" ->
         LET a == AddSearch(rs, now, c.q, c.args[1], c.args[2], c.args[3], dbOk)
         IN IF dbOk
              THEN {[exc |-> NoExc, rows |-> a.rows, events |-> <<"add", "commit">>,
                     ret |-> Op(c.op, NoExc, a.ret, FALSE, <<>>)]}
              ELSE {[exc |-> "OperationalError", rows |-> rs, events |-> <<"add", "commit failed">>,
                     ret |-> Op(c.op, NoExc, NoRow, FALSE, <<>>)]}
    [] c.op = "get_search_by_id" ->
         IF ~c.sid.numeric
           THEN {[exc |-> "ValueError", rows |-> rs, events |-> <<>>,
                  ret |-> Op(c.op, NoExc, NoRow, FALSE, <<>>)]}
         ELSE IF ~dbOk
           THEN {[exc |-> "OperationalError", rows |-> rs, events |-> <<"query failed">>,
                  ret |-> Op(c.op, NoExc, NoRow, FALSE, <<>>)]}
         ELSE {[exc |-> NoExc, rows |-> rs, events |-> <<"query">>,
                ret |-> Op(c.op, NoExc, GetSearchById(rs, c.sid, TRUE), FALSE, <<>>)]}
    [] c.op = "delete_search" ->
         IF ~c.sid.numeric
           THEN {[exc |-> "ValueError", rows |-> rs, events |-> <<>>,
                  ret |-> Op(c.op, NoExc, NoRow, FALSE, <<>>)]}
         ELSE IF ~dbOk
           THEN {[exc |-> "OperationalError", rows |-> rs,
                  events |-> IF \E r \in rs : r.id = c.sid.n
                               THEN <<"query", "delete", "commit failed">>
                               ELSE <<"query failed">>,
                  ret |-> Op(c.op, NoExc, NoRow, FALSE, <<>>)]}
         ELSE LET d == DeleteSearchOp(rs, c.sid, TRUE)
              IN {[exc |-> NoExc, rows |-> d.rows,
                   events |-> IF d.ret THEN <<"query", "delete", "commit">> ELSE <<"query">>,
                   ret |-> Op(c.op, NoExc, NoRow, d.ret, <<>>)]}
    [] OTHER ->
         IF ~dbOk
           THEN {[exc |-> "OperationalError", rows |-> rs, events |-> <<"query failed">>,
                  ret |-> Op(c.op, NoExc, NoRow, FALSE, <<>>)]}
           ELSE {[exc |-> NoExc, rows |-> rs, events |-> <<"query">>,
                  ret |-> Op(c.op, NoExc, NoRow, FALSE, list)] :
                 list \in GetRecentSearches(rs, c.limit, TRUE)}

\* A variant of the except clauses that only logs.
ExceptEventsNoRollback(op) == <<"except">>

\* What the except clause does to the session: add_search and delete_search
\* roll back (lines 129, 242), the two reads only log.
ExceptEvents(op) ==
  IF op \in {"add_search", "delete_search"} THEN <<"except", "rollback">> ELSE <<"except">>

\* The value the except clause returns.
ExceptReturn(c, rs, now) ==
  CASE c.op = "add_search" ->
         Op(c.op, NoExc, AddSearch(rs, now, c.q, c.args[1], c.args[2], c.args[3], FALSE).ret,
            FALSE, <<>>)
    [] OTHER -> Op(c.op, NoExc, NoRow, FALSE, <<>>)

\* A variant that closes the session at the end of the try block only.
FinallyEventsOnSuccessOnly(events) ==
  IF \E i \in 1..Len(events) : events[i] = "except" THEN <<>> ELSE <<"close">>

\* The finally clause (lines 133-134, 179-180, 217-218, 245-246), whatever
\* the session did before.
FinallyEvents(events) == <<"close">>

SessionInit ==
  /\ scall = StoreCall("none", BadSearchId, 0, NoArguments, {})
  /\ spc = "idle"
  /\ sopen = FALSE
  /\ sevents = <<>>
  /\ sret = Op("none", NoExc, NoRow, FALSE, <<>>)

\* A method is called: add_search serializes its arguments, then each method
\* takes its session (session = self.Session()).
SessionCall ==
  /\ spc \in {"idle", "returned", "raised"}
  /\ \E c \in StoreCalls(rows) :
       /\ c.op = "add_search" => Cardinality(rows) < MaxRows
       /\ scall' = c
       /\ IF RaisesBeforeSession(c)
            THEN /\ spc' = "raised"
                 /\ sret' = Op(c.op, "ValueError", NoRow, FALSE, <<>>)
                 /\ sevents' = <<>>
                 /\ sopen' = sopen
            ELSE /\ spc' = "try"
                 /\ sret' = Op("none", NoExc, NoRow, FALSE, <<>>)
                 /\ sevents' = <<"open">>
                 /\ sopen' = TRUE
  /\ UNCHANGED storeVars
  /\ UNCHANGED notSession

\* The try block runs to its return statement or to an exception.
SessionTry ==
  /\ spc = "try"
  /\ \E dbOk \in BOOLEAN :
       \E o \in TryOutcomes(scall, rows, clock, dbOk) :
         /\ rows' = o.rows
         /\ sevents' = sevents \o o.events
         /\ sret' = o.ret
         /\ spc' = IF o.exc = NoExc THEN "finally" ELSE "except"
  /\ UNCHANGED <<scall, sopen>>
  /\ UNCHANGED <<clock, lastOp, lastCall, issued>>
  /\ UNCHANGED notSession

\* The except clause that catches the exception.
SessionExcept ==
  /\ spc = "except"
  /\ sevents' = sevents \o ExceptEvents(scall.op)
  /\ sret' = ExceptReturn(scall, rows, clock)
  /\ spc' = "finally"
  /\ UNCHANGED <<scall, sopen>>
  /\ UNCHANGED storeVars
  /\ UNCHANGED notSession

\* The finally clause, then the method returns.
SessionFinally ==
  /\ spc = "finally"
  /\ LET ev == FinallyEvents(sevents)
     IN /\ sevents' = sevents \o ev
        /\ sopen' = IF ev = <<"close">> THEN FALSE ELSE sopen
  /\ spc' = "returned"
  /\ UNCHANGED <<scall, sret>>
  /\ UNCHANGED storeVars
  /\ UNCHANGED notSession

SessionNext == SessionCall \/ SessionTry \/ SessionExcept \/ SessionFinally

\* ------------------------------------- add_search from concurrent contexts
\* The execution contexts (threads) that call add_search at the same time,
\* each through a session of its own on the one SQLite database.
Contexts == 1..MaxContexts

\* No context holds SQLite's write lock.
NoWriter == 0

\* What each context passes to add_search.
ConcArguments == <<"ES", PyValue("dict", SomeResults), PlainSettings>>

ConcInit ==
  /\ cpc = [c \in Contexts |-> "start"]
  /\ cret = [c \in Contexts |-> NoRow]
  /\ writer = NoWriter

\* No concurrent contexts.
ConcIdle ==
  /\ cpc = <<>>
  /\ cret = <<>>
  /\ writer = NoWriter

\* Lines 122-125: the session's INSERT starts a transaction, which takes the
\* write lock of the database; one transaction holds it at a time.
ConcBegin(c) ==
  /\ cpc[c] = "start"
  /\ writer = NoWriter
  /\ writer' = c
  /\ cpc' = [cpc EXCEPT ![c] = "writing"]
  /\ UNCHANGED <<cret, storeVars>>
  /\ UNCHANGED notConc

\* The ending of add_search in context c: the table, the returned object and
\* the history after the transaction ended with or without a commit.
ConcEnd(c, commitOk) ==
  LET a == AddSearch(rows, clock, "weather", ConcArguments[1], ConcArguments[2],
                     ConcArguments[3], commitOk)
  IN /\ rows' = a.rows
     /\ cret' = [cret EXCEPT ![c] = a.ret]
     /\ cpc' = [cpc EXCEPT ![c] = "returned"]
     /\ lastOp' = Op("add_search", a.raised, a.ret, FALSE, <<>>)
     /\ lastCall' = Call(BadSearchId, 0, ConcArguments[2], ConcArguments[3], commitOk, rows, issued)
     /\ issued' = IssuedWith(a.ret)

\* Lines 125-127 and 134: the transaction that holds the lock commits (the
\* database itself works here) and the lock is released.
ConcCommit(c) ==
  /\ cpc[c] = "writing"
  /\ writer = c
  /\ ConcEnd(c, TRUE)
  /\ writer' = NoWriter
  /\ UNCHANGED clock
  /\ UNCHANGED notConc

\* Lines 128-132: the database stays locked by another context for longer
\* than the connection waits (create_engine sets no timeout, so sqlite3's
\* default applies); the commit raises "database is locked", which the except
\* clause answers with a rollback and a Search that was never stored.
ConcLocked(c) ==
  /\ cpc[c] = "start"
  /\ writer # NoWriter
  /\ ConcEnd(c, FALSE)
  /\ UNCHANGED <<writer, clock>>
  /\ UNCHANGED notConc

\* The one get_recent_searches(MaxContexts) that follows the last add_search
\* to return.
ConcGetRecent ==
  /\ \A c \in Contexts : cpc[c] = "returned"
  /\ lastOp.op = "add_search"
  /\ \E list \in GetRecentSearches(rows, MaxContexts, TRUE) :
       /\ lastOp' = Op("get_recent_searches", NoExc, NoRow, FALSE, list)
       /\ lastCall' = Call(BadSearchId, MaxContexts, PyNone, PyNone, TRUE, rows, issued)
  /\ UNCHANGED <<rows, clock, issued, concVars>>
  /\ UNCHANGED notConc

ConcNext ==
  \/ \E c \in Contexts : ConcBegin(c)
  \/ \E c \in Contexts : ConcCommit(c)
  \/ \E c \in Contexts : ConcLocked(c)
  \/ ConcGetRecent

\* ------------------------------------------------------------------ main
\* The defaults of get_trends_data_with_retry, which main never overrides.
DefaultRetries == 2
DefaultDelay == 2

\* Orders in which the multiselect can hold the three backends it offers.
SelectedProviders ==
  {<<>>, <<"Google">>, <<"DuckDuckGo">>, <<"Bing">>, <<"Google", "DuckDuckGo">>,
   <<"Google", "Bing">>, <<"DuckDuckGo", "Bing">>, <<"Google", "DuckDuckGo", "Bing">>}

\* st.session_state.settings as init_session_state builds it and the
\* settings widgets change it.
SessionSettings ==
  [google_search_api_key : {"", "key"},
   custom_search_engine_id : {"", "cx"},
   country : {"ES"},
   timeframe : {"today 5-y"},
   max_results : {"5"},
   theme : {"light"},
   search_providers : SelectedProviders,
   bing_api_key : {"", "key"},
   show_trends : {TRUE},
   show_geo : BOOLEAN,
   show_topics : BOOLEAN]

\* What a backend may answer during a script run.
MainResponses(provider) ==
  {IoError, Http(200, TRUE, Body(provider, <<>>)), Http(200, TRUE, Body(provider, <<1, 2, 3>>))}

MainInit ==
  /\ mpc = "start"
  /\ mquery \in Queries
  /\ settings \in SessionSettings
  /\ pytrends = Ret("pending", 0)
  /\ search_results = EmptyDict
  /\ ui = <<>>
  /\ calls = [acquire |-> 0, search |-> 0, add |-> 0]

MainIdle ==
  /\ mpc = "idle"
  /\ mquery = ""
  /\ settings = EmptyDict
  /\ pytrends = Ret("pending", 0)
  /\ search_results = EmptyDict
  /\ ui = <<>>
  /\ calls = [acquire |-> 0, search |-> 0, add |-> 0]

\* Lines 298-302: nothing to do without a query; without the Google key or
\* the search-engine id the run shows an error and returns.
MainGuard ==
  /\ mpc = "start"
  /\ IF mquery = ""
       THEN mpc' = "done" /\ ui' = ui
       ELSE IF Falsy(settings.google_search_api_key) \/ Falsy(settings.custom_search_engine_id)
         THEN mpc' = "done" /\ ui' = Append(ui, "error: configure the Google APIs")
         ELSE mpc' = "trends" /\ ui' = ui
  /\ UNCHANGED <<mquery, settings, pytrends, search_results, calls, storeVars>>
  /\ UNCHANGED notMain

\* Lines 304-316: acquire the trend handle; None ends the run with an error.
MainAcquire ==
  /\ mpc = "trends"
  /\ \E svc \in [1..DefaultRetries -> TrendOutcomes] :
       LET a == get_trends_data_with_retry(svc, DefaultRetries, DefaultDelay)
           shown == [i \in 1..Len(a.warnings) |-> "warning: retry failed"]
       IN /\ pytrends' = a.ret
          /\ IF a.ret.kind = "None"
               THEN mpc' = "done"
                    /\ ui' = (ui \o shown) \o <<"error: could not connect to Google Trends">>
               ELSE mpc' = "search" /\ ui' = ui \o shown
  /\ calls' = [calls EXCEPT !.acquire = @ + 1]
  /\ UNCHANGED <<mquery, settings, search_results, storeVars>>
  /\ UNCHANGED notMain

\* Lines 320-333: search_config, then SearchService.get_all_results.
MainSearch ==
  /\ mpc = "search"
  /\ LET ps == settings.search_providers
         search_config == [api_key |-> settings.google_search_api_key,
                           cx |-> settings.custom_search_engine_id,
                           bing_api_key |-> settings.bing_api_key]
     IN \E rs \in [1..Len(ps) -> UNION {MainResponses(n) : n \in KnownProviders}] :
          /\ \A i \in 1..Len(ps) : rs[i] \in MainResponses(ps[i])
          /\ search_results' = GetAllResults(mquery, ps, search_config, rs).value
  /\ calls' = [calls EXCEPT !.search = @ + 1]
  /\ mpc' = "save"
  /\ UNCHANGED <<mquery, settings, pytrends, ui, storeVars>>
  /\ UNCHANGED notMain

\* A variant that hands the history only the backends that gave results.
ResultsArgumentNonEmptyOnly(res) == [k \in {x \in DOMAIN res : res[x] # <<>>} |-> res[k]]

\* Line 340, results=search_results: the mapping as get_all_results gave it.
ResultsArgument(res) == res

\* Lines 335-341: the search goes to the history with a copy of the settings.
MainSave ==
  /\ mpc = "save"
  /\ \E commitOk \in BOOLEAN :
       LET a == AddSearch(rows, clock, mquery, settings.country,
                          PyValue("dict", ResultsArgument(search_results)), PyValue("dict", settings), commitOk)
       IN /\ rows' = a.rows
          /\ lastOp' = Op("add_search", a.raised, a.ret, FALSE, <<>>)
          /\ lastCall' = Call(BadSearchId, 0, PyValue("dict", ResultsArgument(search_results)),
                              PyValue("dict", settings), commitOk, rows, issued)
          /\ issued' = IssuedWith(a.ret)
  /\ calls' = [calls EXCEPT !.add = @ + 1]
  /\ mpc' = "render"
  /\ UNCHANGED <<mquery, settings, pytrends, search_results, ui, clock>>
  /\ UNCHANGED notMain

\* any(search_results.values())
AnyResults(res) == \E k \in DOMAIN res : res[k] # <<>>

\* Lines 343-433: the results, then the trend charts; the geographic and the
\* related-topics charts each call get_trends_data_with_retry again.
MainRender ==
  /\ mpc = "render"
  /\ IF ~AnyResults(search_results)
       THEN /\ ui' = Append(ui, "warning: no search results")
            /\ calls' = calls
       ELSE /\ ui' = Append(ui, "results")
            /\ calls' = [calls EXCEPT !.acquire = @ + (IF settings.show_geo THEN 1 ELSE 0)
                                                     + (IF settings.show_topics THEN 1 ELSE 0)]
  /\ mpc' = "done"
  /\ UNCHANGED <<mquery, settings, pytrends, search_results, storeVars>>
  /\ UNCHANGED notMain

MainNext == MainGuard \/ MainAcquire \/ MainSearch \/ MainSave \/ MainRender

\* --------------------------------------------------------- specifications
\* One call of SearchService.get_all_results.
Init == SearchInit /\ RetryIdle /\ StoreInit /\ MainIdle /\ ConcIdle /\ AdapterIdle /\ SessionInit /\ RegistryInit
Next == SearchNext
Spec == Init /\ [][Next]_vars

\* One call of get_trends_data_with_retry.
InitRetry == RetryInit /\ SearchIdle /\ StoreInit /\ MainIdle /\ ConcIdle /\ AdapterIdle /\ SessionInit /\ RegistryInit
NextRetry == RetryNext
SpecRetry == InitRetry /\ [][NextRetry]_vars

\* The history store under any sequence of its operations.
InitStore == StoreInit /\ SearchIdle /\ RetryIdle /\ MainIdle /\ ConcIdle /\ AdapterIdle /\ SessionInit /\ RegistryInit
NextStore == StoreNext
SpecStore == InitStore /\ [][NextStore]_vars

\* One run of the page script.
InitMain == MainInit /\ SearchIdle /\ RetryIdle /\ StoreInit /\ ConcIdle /\ AdapterIdle /\ SessionInit /\ RegistryInit
NextMain == MainNext
SpecMain == InitMain /\ [][NextMain]_vars

\* Concurrent add_search calls on one database, then get_recent_searches.
InitConc == ConcInit /\ StoreInit /\ SearchIdle /\ RetryIdle /\ MainIdle /\ AdapterIdle /\ SessionInit /\ RegistryInit
NextConc == ConcNext
SpecConc == InitConc /\ [][NextConc]_vars

\* Records are added and a caller asks the store to update their results.
InitUpdate == StoreInit /\ SearchIdle /\ RetryIdle /\ MainIdle /\ ConcIdle /\ AdapterIdle /\ SessionInit /\ RegistryInit
NextUpdate == UpdateNext
SpecUpdate == InitUpdate /\ [][NextUpdate]_vars

\* Store calls one after the other, each followed through its session.
InitSession == SessionInit /\ StoreInit /\ SearchIdle /\ RetryIdle /\ MainIdle /\ ConcIdle /\ AdapterIdle /\ RegistryInit
NextSession == SessionNext
SpecSession == InitSession /\ [][NextSession]_vars

\* Threads that call SearchManager.get_instance in any interleaving.
InitRegistry == RegistryInit /\ SessionInit /\ StoreInit /\ SearchIdle /\ RetryIdle /\ MainIdle /\ ConcIdle /\ AdapterIdle
NextRegistry == RegistryNext
SpecRegistry == InitRegistry /\ [][NextRegistry]_vars

\* One search call of one provider adapter.
InitAdapter == AdapterInit /\ SearchIdle /\ RetryIdle /\ StoreInit /\ MainIdle /\ ConcIdle /\ SessionInit /\ RegistryInit
NextAdapter == AdapterNext
SpecAdapter == InitAdapter /\ [][NextAdapter]_vars

\* ------------------------------------------------------------- properties
\* Positions of a name in the requested list.
PositionsOf(name) == {i \in 1..Len(providers) : providers[i] = name}

\* The configuration keys that belong to a backend.
KeysOf(name) ==
  CASE name = "Google" -> {"api_key", "cx"}
    [] name = "Bing" -> {"bing_api_key"}
    [] OTHER -> {}

\* What the adapter of a callable backend makes of a response.
AdapterValue(name, r) ==
  CASE name = "Google" -> GoogleSearch(r).value
    [] name = "Bing" -> BingSearch(r).value
    [] OTHER -> DuckDuckGoSearch(r).value

C5_MissingGoogleKeyDoesNotAbort ==
  (/\ mpc = "done"
   /\ mquery # ""
   /\ (Falsy(settings.google_search_api_key) \/ Falsy(settings.custom_search_engine_id))) =>
    /\ calls.search = 1
    /\ \A B \in Requested(settings.search_providers) \ {"Google"} : B \in DOMAIN search_results

\* C6: a script run whose trend acquisition returned None still calls
\* get_all_results, records the query in the history and shows the notice.
C6_TrendFailureDoesNotBlockSearch ==
  (mpc = "done" /\ pytrends.kind = "None") =>
    /\ calls.search = 1
    /\ calls.add = 1
    /\ lastOp.op = "add_search"
    /\ \E k \in 1..Len(ui) : ui[k] = "error: could not connect to Google Trends"

\* C7: no stored record holds a credential key in its settings, and neither
\* does the record get_search_by_id returns.
C7_NoCredentialPersisted ==
  /\ \A r \in rows : (DOMAIN r.settings.data) \cap Denylist = {}
  /\ lastOp.op = "get_search_by_id" => (DOMAIN lastOp.row.settings.data) \cap Denylist = {}

\* C8: a call that waits for a backend can always go on: the adapter's
\* request ends, by an answer or by its timeout.
C8_HangingBackendDoesNotBlock ==
  pc = "waiting" => ENABLED ProviderReceive

\* C9: a call in which every attempt failed made exactly `retries` attempts,
\* returned None, raised nothing, and (if there was an attempt) reported the
\* error of the last one.
C9_RetryExhaustion ==
  /\ rret.kind # "raised"
  /\ (rpc = "done" /\ rret.kind = "None") =>
       /\ attempts = retries
       /\ retries > 0 => warnings = <<[attempt |-> retries, error |-> lastError]>>

\* Three attempts, all failed.
C9_Witness ==
  /\ rpc = "done"
  /\ rret.kind = "None"
  /\ retries = 3
  /\ attempts = 3

\* C10: when the n-th attempt starts (n = attempt + 1) the call has waited
\* (n - 1) x delay: nothing before the first attempt, delay between two.
C10_WaitsOnlyBetweenAttempts ==
  rpc = "build" => waited = attempt * delay

\* C11: a handle is returned as soon as an attempt builds it: the call is
\* over, the handle is the one of the last attempt made, that attempt is
\* within `retries`, and a call that is over makes no attempt and no wait any
\* more; with retries = 3 and a handle built by the third attempt, exactly 3
\* attempts were made and the call waited at least 2 x delay.
C11_EarlySuccess ==
  /\ rret.kind = "handle" =>
       /\ rpc = "done"
       /\ rret.builtBy = attempts
       /\ attempts = attempt + 1
       /\ attempts <= retries
  /\ rpc = "done" => ~ENABLED NextRetry
  /\ (retries = 3 /\ rret = Ret("handle", 3)) =>
       /\ attempts = 3
       /\ waited >= 2 * delay

\* Two failures, then the third attempt builds the handle.
C11_Witness ==
  /\ rpc = "done"
  /\ retries = 3
  /\ rret = Ret("handle", 3)
  /\ lastError \in TrendErrors

\* C12: a script run acquires the trend handle once: the geographic and the
\* related-topics reads use the handle of line 306 and do not call
\* get_trends_data_with_retry again.
C12_HandleAcquiredOnce ==
  calls.acquire <= 1

\* C13: the id add_search assigns is greater than every id it assigned before,
\* so the id of a deleted record is never given out again.
C13_IdsAreMonotonic ==
  (lastOp.op = "add_search" /\ lastOp.row.id # NoId) =>
    \A i \in lastCall.issued : i < lastOp.row.id

\* C14: no two stored records share an id and every stored record has one;
\* the id add_search returns is new to the table and is the id of exactly the
\* record it stored (add_search has no id parameter: the store chooses it);
\* and a record the latest call left in the table is there unchanged, id
\* included.
C14_IdsUniqueAndImmutable ==
  /\ \A r1, r2 \in rows : r1.id = r2.id => r1 = r2
  /\ \A r \in rows : r.id # NoId
  /\ (lastOp.op = "add_search" /\ lastOp.row.id # NoId) =>
       /\ \A r \in lastCall.before : r.id # lastOp.row.id
       /\ Cardinality({r \in rows : r.id = lastOp.row.id}) = 1
       /\ rows \ lastCall.before = {r \in rows : r.id = lastOp.row.id}
  /\ \A r \in lastCall.before : r \in rows \/ (\A r2 \in rows : r2.id # r.id)

\* A second record stored next to a first one.
C14_Witness ==
  /\ lastOp.op = "add_search"
  /\ lastOp.row.id = 2
  /\ Cardinality(rows) = 2
  /\ Cardinality(lastCall.before) = 1

\* C15: once every concurrent add_search has returned, each returned a record
\* with an id, the ids are pairwise distinct, and the get_recent_searches that
\* follows lists every one of them.
C15_ConcurrentAddsAllStored ==
  (\A c \in Contexts : cpc[c] = "returned") =>
    /\ \A c \in Contexts : cret[c].id # NoId
    /\ \A c1, c2 \in Contexts : c1 # c2 => cret[c1].id # cret[c2].id
    /\ lastOp.op = "get_recent_searches" =>
         \A c \in Contexts : \E i \in 1..Len(lastOp.list) : lastOp.list[i].id = cret[c].id

\* C16: an add_search given a results or settings value that json.dumps
\* refuses raises nothing, and the record it stores holds the string form of
\* that value.
C16_UnencodableValueNeverFailsWrite ==
  lastOp.op = "add_search" =>
    /\ lastCall.results.type \in {"unserializable", "circular"} =>
         /\ lastOp.raised = NoExc
         /\ lastOp.row.id # NoId => lastOp.row.results = PyValue("str", lastCall.results.data)
    /\ lastCall.settings.type \in {"unserializable", "circular"} =>
         /\ lastOp.raised = NoExc
         /\ lastOp.row.id # NoId => lastOp.row.settings = PyValue("str", lastCall.settings.data)

C18_DeleteIdempotence ==
  lastOp.op = "delete_search" =>
    LET sid == lastCall.sid
        existed == sid.numeric /\ (\E r \in lastCall.before : r.id = sid.n)
    IN /\ lastOp.raised = NoExc
       /\ lastOp.ok <=> (existed /\ (\A r \in rows : r.id # sid.n))
       /\ (existed /\ lastCall.dbOk) => lastOp.ok
       /\ lastOp.ok => rows = {r \in lastCall.before : r.id # sid.n}
       /\ ~lastOp.ok => rows = lastCall.before
       /\ lastOp.ok => \A dbOk \in BOOLEAN :
            /\ ~DeleteSearchOp(rows, sid, dbOk).ret
            /\ DeleteSearchOp(rows, sid, dbOk).rows = rows

\* The second delete of an id that add_search once gave out: false, with the
\* database working.
C18_Witness ==
  /\ lastOp.op = "delete_search"
  /\ ~lastOp.ok
  /\ lastCall.dbOk
  /\ lastCall.sid.numeric
  /\ lastCall.sid.n \in issued
  /\ \A r \in rows : r.id # lastCall.sid.n
  /\ rows # {}

C20_GetByIdNotFound ==
  lastOp.op = "get_search_by_id" =>
    LET sid == lastCall.sid
        stored == sid.numeric /\ (\E r \in rows : r.id = sid.n)
    IN /\ lastOp.raised = NoExc
       /\ rows = lastCall.before
       /\ ~stored => lastOp.row = NoRow
       /\ lastOp.row # NoRow => (lastOp.row \in rows /\ lastOp.row.id = sid.n)
       /\ (stored /\ lastCall.dbOk) => lastOp.row # NoRow

\* An id that is no number, asked of a table that holds records.
C20_Witness ==
  /\ lastOp.op = "get_search_by_id"
  /\ ~lastCall.sid.numeric
  /\ lastOp.row = NoRow
  /\ rows # {}

\* The items of the payload a response carries for a backend (none when the
\* body has no payload).
ItemsOf(provider, r) ==
  CASE provider = "Google" -> IF "items" \in DOMAIN r.body THEN r.body.items ELSE <<>>
    [] provider = "Bing" -> IF "webPages" \in DOMAIN r.body THEN r.body.webPages.value ELSE <<>>
    [] OTHER -> IF "results" \in DOMAIN r.body THEN r.body.results ELSE <<>>

\* The title and link fields of a backend's items.
FieldsOf(provider) ==
  CASE provider = "Google" -> <<"title", "link">>
    [] provider = "Bing" -> <<"name", "url">>
    [] OTHER -> <<"title", "href">>

\* An item that lacks one of its two fields.
BadItem(provider, it) == ~({FieldsOf(provider)[1], FieldsOf(provider)[2]} \subseteq DOMAIN it)

\* A response that is a failure of the call: an I/O error, a status outside
\* 2xx, a body that is no JSON, or a payload with an item that lacks a field.
FailedResponse(provider, r) ==
  \/ r.kind # "http"
  \/ r.status < 200
  \/ r.status >= 300
  \/ ~r.parses
  \/ \E i \in 1..Len(ItemsOf(provider, r)) : BadItem(provider, ItemsOf(provider, r)[i])

\* C21: the search of each of the three adapters raises nothing, and on an
\* I/O failure, a non-success status or a malformed payload it returns the
\* empty list.
C21_AdapterNeverRaises ==
  apc = "returned" =>
    /\ aout.raised = NoExc
    /\ FailedResponse(aprovider, aresp) => aout.value = <<>>

\* A Bing answer of status 200 with an item that lacks its name: empty list.
C21_Witness ==
  /\ apc = "returned"
  /\ aprovider = "Bing"
  /\ aresp = Http(200, TRUE, Body("Bing", <<1, 0>>))
  /\ aout.value = <<>>

\* C30: the result of a keyed adapter (Google, Bing) is all or nothing: the
\* empty list, or one entry for every item of the payload; a payload with an
\* item that lacks a field gives the empty list.
C30_AllOrNothing ==
  (apc = "returned" /\ aprovider \in {"Google", "Bing"} /\ aresp.kind = "http") =>
    LET items == ItemsOf(aprovider, aresp)
        f == FieldsOf(aprovider)
    IN IF \E i \in 1..Len(items) : BadItem(aprovider, items[i])
         THEN aout.value = <<>>
         ELSE \/ aout.value = <<>>
              \/ aout.value = [i \in 1..Len(items) |-> SearchResult(items[i][f[1]], items[i][f[2]])]

\* A Google answer of status 200 whose second item lacks its title, after a
\* good first item: nothing is returned.
C30_Witness ==
  /\ apc = "returned"
  /\ aprovider = "Google"
  /\ aresp = Http(200, TRUE, Body("Google", <<2, 0>>))
  /\ aout.value = <<>>

\* A response that is a success of the backend's call: status 200, a JSON
\* body, every item of its payload with its fields.
SucceededResponse(provider, r) ==
  /\ r.kind = "http"
  /\ r.status = 200
  /\ r.parses
  /\ \A i \in 1..Len(ItemsOf(provider, r)) : ~BadItem(provider, ItemsOf(provider, r)[i])

\* C23: when a backend's call succeeded, the list stored under its name in
\* the mapping get_all_results returns has one {title, link} entry per item
\* of the payload, in the payload's order: the i-th entry is made of the
\* i-th item.
C23_OrderPreserved ==
  pc = "returned" =>
    \A name \in Requested(providers) :
      \A j \in PositionsOf(name) :
        (j = Len(providers) \/ \A k \in (j + 1)..Len(providers) : providers[k] # name) =>
          (SucceededResponse(name, trace[j]) =>
             LET items == ItemsOf(name, trace[j])
                 f == FieldsOf(name)
             IN results[name] =
                  [i \in 1..Len(items) |-> SearchResult(items[i][f[1]], items[i][f[2]])])

\* DuckDuckGo answered with item 2 before item 1 and the mapping holds them
\* in that order.
C23_Witness ==
  /\ pc = "returned"
  /\ providers = <<"DuckDuckGo", "Google">>
  /\ trace[1] = Http(200, TRUE, Body("DuckDuckGo", <<2, 1>>))
  /\ results["DuckDuckGo"] = <<SearchResult(Titles[2], Links[2]), SearchResult(Titles[1], Links[1])>>

Merged(res, partial) ==
  [k \in DOMAIN res \cup DOMAIN partial |-> IF k \in DOMAIN partial THEN partial[k] ELSE res[k]]

C25_NoExpiry ==
  /\ \A old \in lastCall.before :
       old \notin rows => (lastOp.op = "delete_search" /\ lastCall.sid = SearchId(old.id))
  /\ \A r \in rows :
       r \notin lastCall.before => (lastOp.op = "add_search" /\ lastOp.row.id = r.id)
  /\ lastOp.op \in {"get_recent_searches", "get_search_by_id"} => rows = lastCall.before

\* A second record added while the first one, older, stays.
C25_Witness ==
  /\ lastOp.op = "add_search"
  /\ Cardinality(lastCall.before) = 1
  /\ Cardinality(rows) = 2
  /\ lastCall.before \subseteq rows

\* The position of the first event of a kind in a session's events (0 when
\* there is none).
FirstAt(events, kind) ==
  IF \E i \in 1..Len(events) : events[i] = kind
    THEN CHOOSE i \in 1..Len(events) : events[i] = kind /\ \A k \in 1..(i - 1) : events[k] # kind
    ELSE 0

\* C26: when a store method has ended, by a return or by an exception, no
\* session it opened is open: a session that was opened ends with its close,
\* whatever happened in between (success, nothing found, an invalid id, a
\* database error), and a write whose commit failed is rolled back before
\* that close.
C26_SessionReleased ==
  spc \in {"returned", "raised"} =>
    /\ ~sopen
    /\ sevents # <<>> =>
         /\ sevents[1] = "open"
         /\ sevents[Len(sevents)] = "close"
         /\ FirstAt(sevents, "close") = Len(sevents)
    /\ FirstAt(sevents, "commit failed") # 0 =>
         /\ FirstAt(sevents, "rollback") > FirstAt(sevents, "commit failed")
         /\ FirstAt(sevents, "rollback") < FirstAt(sevents, "close")

\* A delete_search whose commit failed: rolled back, then closed.
C26_Witness ==
  /\ spc = "returned"
  /\ scall.op = "delete_search"
  /\ sevents = <<"open", "query", "delete", "commit failed", "except", "rollback", "close">>
  /\ ~sopen

\* The country add_search records: the argument, or settings['country']
\* when the argument is None and the settings carry one (lines 105-106).
CountryOf(args) ==
  IF args[1] = None /\ args[3].type # "none" /\ args[3].data # EmptyDict
       /\ "country" \in DOMAIN args[3].data
    THEN args[3].data["country"] ELSE args[1]

\* C28: when session.commit() raises inside add_search, the call rolls back,
\* the stored records are what they were, nothing is raised and the record
\* returned carries the query and the country only: no id, no timestamp, no
\* results, no settings. A record add_search returns has an id exactly when
\* it was stored by the call.
C28_FailedCommit ==
  (spc = "returned" /\ scall.op = "add_search") =>
    /\ FirstAt(sevents, "commit failed") # 0 =>
         /\ FirstAt(sevents, "rollback") # 0
         /\ rows = scall.before
         /\ sret.raised = NoExc
         /\ sret.row = Search(NoId, scall.q, CountryOf(scall.args), NoTime, PyNone, PyNone)
    /\ sret.row.id # NoId <=>
         \E r \in rows \ scall.before : r.id = sret.row.id /\ r.query = sret.row.query

\* A commit that failed while one record was stored: that record is all
\* there is and the returned one has no id.
C28_Witness ==
  /\ spc = "returned"
  /\ scall.op = "add_search"
  /\ FirstAt(sevents, "commit failed") # 0
  /\ Cardinality(rows) = 1
  /\ sret.row.id = NoId
  /\ sret.row.country = "ES"

\* C27: search, then persistence. Up to the return of get_all_results the
\* script run has not touched the history store and no store session is
\* open; a run that called get_all_results then calls add_search, once, with
\* the mapping get_all_results returned, whether or not any backend gave a
\* result; add_search is never called before get_all_results has returned.
C27_SaveAfterSearch ==
  /\ calls.add <= calls.search
  /\ calls.add <= 1
  /\ ~sopen
  /\ mpc \in {"start", "trends", "search", "save"} =>
       /\ calls.add = 0
       /\ rows = {}
       /\ lastOp.op = "none"
  /\ mpc = "save" => calls.search = 1
  /\ (mpc \in {"render", "done"} /\ calls.search = 1) =>
       /\ calls.add = 1
       /\ lastOp.op = "add_search"
       /\ lastCall.results = PyValue("dict", search_results)
       /\ \A r \in rows : r.results = PyValue("dict", search_results)

\* A run whose two backends both gave the empty list: the mapping went to
\* the history all the same.
C27_Witness ==
  /\ mpc = "done"
  /\ calls.search = 1
  /\ calls.add = 1
  /\ Cardinality(DOMAIN search_results) = 2
  /\ ~AnyResults(search_results)
  /\ \E r \in rows : r.results = PyValue("dict", search_results)

\* C29: get_instance is a per-thread singleton under every interleaving: at
\* most one instance was ever built for a thread identifier; every call of a
\* thread returned the same instance, whatever db_path it passed; two
\* threads never got the same instance; and an instance once registered
\* stays in the registry under its thread.
C29_PerThreadSingleton ==
  /\ \A i, j \in 1..Len(made) : made[i].thread = made[j].thread => i = j
  /\ \A t \in Threads : Cardinality(given[t]) <= 1
  /\ \A t, u \in Threads : t # u => given[t] \cap given[u] = {}
  /\ \A i \in 1..Len(made) :
       /\ made[i].thread \in DOMAIN instances
       /\ instances[made[i].thread] = made[i]
  /\ \A t \in Threads : ipc[t] = "returned" => (iret[t] \in given[t] /\ iret[t] = instances[t])

\* A thread whose instance was built with the default path asked again with
\* another path and got the instance it had, while another thread has its own.
C29_Witness ==
  /\ ipc[1] = "returned"
  /\ iarg[1] = "a.db"
  /\ iret[1].db_path = "searches.db"
  /\ ipc[2] = "returned"
  /\ iret[2] # iret[1]

=============================================================================
